---------------------------- MODULE Spec2Model ----------------------------
(***************************************************************************)
(* safe-async / defer.js: the adapter that turns a function written with   *)
(* one completion parameter (`next`) into a function usable with a Node    *)
(* callback or as a promise.  The model follows the revision with error    *)
(* coercion, src/index.js lines 134-272 (revision "B"); the variable       *)
(* `revision` selects the other revisions of the module: "A", with         *)
(* progress and without coercion (src/index.js 1-132), "C", the earliest   *)
(* (src/index.js 274-340), and "N", revision A with the completion handle  *)
(* of release 0.3.1 (Node callback convention, wrap that inspects its      *)
(* first argument, cwrap), whose source is described by History.md, the    *)
(* Readme and the tests.                                                   *)
(*                                                                         *)
(* One record per invocation of the adapted function holds what the        *)
(* closure of that invocation holds (arguments, self, callback, promise)   *)
(* and what its collaborators observed (calls of the original function,    *)
(* calls of the caller's callback, the promise's state, the value the      *)
(* adapted call returned or threw).  JavaScript is single threaded: at     *)
(* most one invocation has code on the stack (ctx # "none"); deferred work *)
(* sits in the setImmediate queue, in timers or in a pending thenable.     *)
(***************************************************************************)
EXTENDS Integers, Sequences, FiniteSets, TLC

VARIABLES provider, inv, immediateQ, quota, revision

vars == <<provider, inv, immediateQ, quota, revision>>

(***************************************************************************)
(* Bounds.                                                                 *)
(***************************************************************************)
MaxCalls == 2
MaxOps == 2
MaxArgs == 2

Calls == 1..MaxCalls

(***************************************************************************)
(* JavaScript values: every value is a record of one shape.  `id` is the   *)
(* identity of an object (0 for primitives), `msg` the string payload.     *)
(***************************************************************************)
Str(m) == [kind |-> "string", id |-> 0, msg |-> m]
Undefined == [kind |-> "undefined", id |-> 0, msg |-> ""]
Null == [kind |-> "null", id |-> 0, msg |-> ""]
ErrorObj(n, m) == [kind |-> "error", id |-> n, msg |-> m]
Fn(n, b) == [kind |-> "function", id |-> n, msg |-> b]
Thenable == [kind |-> "thenable", id |-> 1, msg |-> ""]
PromiseObj(i, prov) == [kind |-> "promise", id |-> i, msg |-> prov]
NextHandle(i) == [kind |-> "function", id |-> 100 + i, msg |-> "next"]

\* Values of the embedding application.
A == Str("a")
B == Str("b")
UserErr == ErrorObj(1, "boom")
CbErr == ErrorObj(2, "thrown by callback")
\* The TypeError of a call of a property that is not a function.
TypeErr == ErrorObj(3, "is not a function")
CbQuiet == Fn(1, "quiet")
CbThrows == Fn(2, "throws")
CbThrowsOnResult == Fn(4, "throws unless it is given an error")
UserFn == Fn(3, "user")
Receivers == {"objA"}
Providers == {"Q", "when"}

\* Argument lists of a call: the leading arguments are plain values, the first
\* of them possibly a function; the last one may also be a callback that
\* throws when it is invoked.
LeadVals == {A, CbQuiet}
LastVals == {A, CbQuiet, CbThrows}
LeadLists(n) == {[k \in 1..n |-> IF k = 1 THEN x ELSE A] : x \in LeadVals}
ArgLists ==
  {<<>>, <<CbThrowsOnResult>>} \cup UNION {{Append(q, x) : q \in LeadLists(n - 1), x \in LastVals}
                     : n \in 1..MaxArgs}
\* The calls of a run with two invocations: a promise-mode call and a
\* callback-mode call that differ in leading argument and receiver.
PairCalls ==
  {[arguments |-> <<A, A>>, self |-> "objA"],
   [arguments |-> <<B, CbQuiet>>, self |-> "objB"]}
OkLists == {<<>>, <<A>>, <<A, B>>}
FailVals == {A, UserErr}
NextVals == {A, UserErr, UserFn}
ReturnVals == {Undefined, Str("42"), Thenable}

\* What a timer or a Node-style I/O completion passes to the function it was
\* given, and the receiver it calls it with.
TimerArgs == {<<UserErr, A>>}
TimerReceivers == {"timer"}

\* The inputs of the runs that follow the other revisions of the module: the
\* calls of the adapted function, the calls next(null, data...) of the body,
\* the progress notifications, and a Node-style completion without an error.
RevisionCalls ==
  {[arguments |-> a, self |-> "objA"] : a \in {<<A>>, <<A, CbQuiet>>}}
NodeCalls == {<<Null, A>>}
ProgressLists == {<<A, B>>}
ProgressVals == {B}
NodeTimerArgs == {<<Null, A>>}

(***************************************************************************)
(* Language-level helpers.                                                 *)
(***************************************************************************)
TypeofFunction(v) == v.kind = "function"
InstanceofError(v) == v.kind = "error"
IsThenable(v) == v.kind \in {"thenable", "promise"}
Truthy(v) == ~(v.kind \in {"undefined", "null"} \/ (v.kind = "string" /\ v.msg = ""))

\* String(v), as the Error constructor applies it to its message argument.
JsString(v) ==
  CASE v.kind = "string" -> v.msg
    [] v.kind = "undefined" -> ""
    [] v.kind = "null" -> "null"
    [] v.kind = "error" -> "Error: " \o v.msg
    [] OTHER -> "[object]"

\* Identity of the k-th Error object allocated on behalf of invocation i.
FreshId(i, k) == 10 * i + k

(***************************************************************************)
(* errify (src/index.js 256-258).                                          *)
(***************************************************************************)
errify_never_wraps(e, n) == e
errify_always_wraps(e, n) == ErrorObj(n, JsString(e))
errify(e, n) == IF InstanceofError(e) THEN e ELSE ErrorObj(n, JsString(e))

(***************************************************************************)
(* arguments[arguments.length-1] and [].slice.call(arguments, 0, length-1) *)
(***************************************************************************)
First(arguments) == IF arguments = <<>> THEN Undefined ELSE arguments[1]
Last(arguments) ==
  IF Len(arguments) = 0 THEN Undefined ELSE arguments[Len(arguments)]

Args_forwards_all(arguments) == arguments
Args(arguments) ==
  IF Len(arguments) = 0 THEN <<>> ELSE SubSeq(arguments, 1, Len(arguments) - 1)

(***************************************************************************)
(* The Promise Provider (external): `new defer.promise(setup)` calls setup *)
(* with its resolve and reject functions.  Both settle the promise once;   *)
(* resolve takes its first argument.                                       *)
(***************************************************************************)
NoPromise == [state |-> "none", value |-> Undefined, provider |-> "none"]
NewPromise(prov) == [state |-> "pending", value |-> Undefined, provider |-> prov]

ProviderResolve(p, vals) ==
  IF p.state = "pending"
  THEN [p EXCEPT !.state = "fulfilled",
                 !.value = IF Len(vals) = 0 THEN Undefined ELSE vals[1]]
  ELSE p

ProviderReject(p, e) ==
  IF p.state = "pending"
  THEN [p EXCEPT !.state = "rejected", !.value = e]
  ELSE p

(***************************************************************************)
(* State of one invocation of the adapted function.  mode, arguments, self *)
(* and promise are the closure's variables; prov is the value of           *)
(* defer.promise the call read ("unread" when it never looked).  The rest  *)
(* records what happened: fnLog the calls of the original function, cbLog  *)
(* the calls of the caller's callback, fires the calls of next.ok and      *)
(* next.err, thrown the exceptions thrown by the running code, escaped the *)
(* exceptions nobody caught, ret the outcome of the adapted call, made the *)
(* number of promises constructed, sched the number of invoke() calls      *)
(* handed to setImmediate, wraps the decorated callbacks held by timers,   *)
(* inner the state of a thenable the original function returned and settle *)
(* how it settled, decorated the number of functions next.wrap returned,   *)
(* wrLog the calls of those functions with the calls each one made, cwraps *)
(* the functions decorated by next.cwrap held by timers, wkind the kind of *)
(* decorated function on the stack, notes the calls of the promise's       *)
(* progress notifier, handle what the members ok, err and wrap of next are *)
(* bound to, seen the handle as it was when the original function started. *)
(***************************************************************************)
\* The handle right after `var next = _next()` (153), and after next.wrap
\* (154) and next.ok / next.err (163-166 or 176-177) have been assigned.  The
\* handle of revision C is a plain function without members.
Unwired == [ok |-> "unset", err |-> "unset", wrap |-> "unset"]
Wired(sink) ==
  IF revision = "C" THEN Unwired ELSE [ok |-> sink, err |-> sink, wrap |-> "set"]

NotCalled ==
  [mode |-> "none", arguments |-> <<>>, self |-> "none",
   fnLog |-> <<>>, cbLog |-> <<>>, promise |-> NoPromise, made |-> 0,
   ret |-> [st |-> "none", val |-> Undefined],
   ctx |-> "none", sched |-> 0, ops |-> 0, wraps |-> 0, inner |-> "none",
   prov |-> "unread", fires |-> <<>>, allocs |-> 0,
   thrown |-> <<>>, escaped |-> {},
   decorated |-> 0, wrLog |-> <<>>, cwraps |-> 0, wkind |-> "none", notes |-> <<>>,
   settle |-> [how |-> "none", val |-> Undefined],
   handle |-> Unwired, seen |-> <<>>]

\* Does the caller's callback throw when it is invoked?
CallbackThrows(s) ==
  s.mode = "callback" /\ Last(s.arguments) \in {CbThrows, CbThrowsOnResult}

\* Did the call of the caller's callback that was just made throw?
CallbackThrew(s) ==
  /\ s.mode = "callback"
  /\ \/ Last(s.arguments) = CbThrows
     \/ /\ Last(s.arguments) = CbThrowsOnResult
        /\ s.cbLog # <<>>
        /\ ~Truthy(First(Last(s.cbLog).args))

\* callback.call(self, ...) / callback.apply(self, ...)
CallCallback(s, cbArgs) ==
  [s EXCEPT !.cbLog = Append(@, [args |-> cbArgs, self |-> s.self])]

(***************************************************************************)
(* next.ok and next.err as the two branches assign them                    *)
(* (src/index.js 163-166 and 176-177).                                     *)
(***************************************************************************)
NextOkCallback_drops_undefined(s, vals) == CallCallback(s, vals)
NextOkCallback(s, vals) == CallCallback(s, <<Undefined>> \o vals)

NextErrCallback_as_result(s, e) == CallCallback(s, <<Undefined, e>>)
NextErrCallback(s, e) == CallCallback(s, <<e>>)

NextOkPromise_overwrites(s, vals) ==
  [s EXCEPT !.promise = [@ EXCEPT !.state = "fulfilled",
                                  !.value = IF Len(vals) = 0 THEN Undefined ELSE vals[1]]]
NextOkPromise(s, vals) ==
  [s EXCEPT !.promise = ProviderResolve(@, vals)]

NextErrPromise_resolves(s, e) ==
  [s EXCEPT !.promise = ProviderResolve(@, <<e>>)]
NextErrPromise(s, e) ==
  [s EXCEPT !.promise = ProviderReject(@, e)]

NextOk(s, vals) ==
  LET t == [s EXCEPT !.fires = Append(@, [op |-> "ok", args |-> vals, ctx |-> s.ctx])]
  IN IF s.mode = "callback" THEN NextOkCallback(t, vals) ELSE NextOkPromise(t, vals)

\* Only revision B passes the failure through errify (163, 177); revisions A
\* and N hand it on as it is (31, 47), and so does the handle of revision C
\* (300, 321).
NextErr_coerces(i, s, err) ==
  LET e == errify(err, FreshId(i, s.allocs + 1))
      t == [s EXCEPT !.fires = Append(@, [op |-> "err", args |-> <<err>>, ctx |-> s.ctx]),
                     !.allocs = IF e = err THEN @ ELSE @ + 1]
  IN IF s.mode = "callback" THEN NextErrCallback(t, e) ELSE NextErrPromise(t, e)
NextErr(i, s, err) ==
  LET e == IF revision = "B" THEN errify(err, FreshId(i, s.allocs + 1)) ELSE err
      t == [s EXCEPT !.fires = Append(@, [op |-> "err", args |-> <<err>>, ctx |-> s.ctx]),
                     !.allocs = IF e = err THEN @ ELSE @ + 1]
  IN IF s.mode = "callback" THEN NextErrCallback(t, e) ELSE NextErrPromise(t, e)

\* next.progress (35, 48): nothing in callback mode, the provider's
\* progress notifier in promise mode.
NextProgress_notifies_callback(s, vals) ==
  IF s.mode = "callback" THEN CallCallback(s, <<Undefined>> \o vals)
  ELSE [s EXCEPT !.notes = Append(@, vals)]
NextProgress(s, vals) ==
  IF s.mode = "callback" THEN s
  ELSE [s EXCEPT !.notes = Append(@, vals)]

\* The handle of revision C (298-305, 319-324): next itself is the sink.
NextC(i, s, arguments) ==
  IF arguments # <<>> /\ InstanceofError(arguments[1])
  THEN NextErr(i, s, arguments[1])
  ELSE NextOk(s, arguments)

\* The members of the handle in each revision.
HandleHas(member) ==
  CASE member \in {"ok", "err", "wrap"} -> revision # "C"
    [] member = "progress" -> revision \in {"A", "N"}
    [] member = "cwrap" -> revision = "N"

(***************************************************************************)
(* How the code on the stack of an invocation ends.                        *)
(***************************************************************************)
\* It completes normally; `r` is what invoke() returns.  Revision C calls
\* invoke() and returns nothing (307-308).
Finish_drops_result(s, r) ==
  [s EXCEPT !.ctx = "none",
            !.ret = IF s.ctx = "sync" THEN [st |-> "returned", val |-> Undefined] ELSE @]
Finish(s, r) ==
  [s EXCEPT !.ctx = "none",
            !.ret = IF s.ctx = "sync"
                    THEN [st |-> "returned",
                          val |-> IF revision = "C" THEN Undefined ELSE r]
                    ELSE @]

\* An exception leaves the adapter's frames: to the caller of the adapted
\* function when the body runs inside the call, else to whatever ran the task.
Propagate(s, x) ==
  [s EXCEPT !.ctx = "none",
            !.ret = IF s.ctx = "sync" THEN [st |-> "threw", val |-> x] ELSE @,
            !.escaped = IF s.ctx = "sync" THEN @ ELSE @ \cup {[site |-> s.ctx, val |-> x]}]

\* catch (err) { next.err.call(this, err); }  of _invoke (240-242; 110-112
\* in revision A); catch (err) { next(err); } in revision C (290-292).
\* A callback that throws while it receives the error is not caught again.
Catch_rethrows(i, s, x) == Propagate(s, x)
Catch_returns_error(i, s, x) ==
  LET t == IF revision = "C" THEN NextC(i, s, <<x>>) ELSE NextErr(i, s, x)
  IN IF CallbackThrew(t) THEN Propagate(t, CbErr) ELSE Finish(t, x)
Catch(i, s, x) ==
  LET t == IF revision = "C" THEN NextC(i, s, <<x>>) ELSE NextErr(i, s, x)
  IN IF CallbackThrew(t) THEN Propagate(t, CbErr) ELSE Finish(t, Undefined)

\* catch (e) { next.err.call(this, e); }  of _wrap (194).
WrapCatch_uncaught(i, s, x) == Propagate(s, x)
WrapCatch_swallows(i, s, x) == Finish(s, Undefined)
WrapCatch(i, s, x) ==
  LET t == NextErr(i, s, x)
  IN IF CallbackThrew(t) THEN Propagate(t, CbErr) ELSE Finish(t, Undefined)

\* An exception unwinds the running code up to the nearest enclosing catch:
\* that of _wrap inside a decorated function, else that of _invoke.
Unwind(i, s, x) ==
  IF s.ctx = "wrap" THEN WrapCatch(i, s, x) ELSE Catch(i, s, x)

\* The running code calls next.ok(vals) / next.err(e).  When the caller's
\* callback throws, the exception unwinds the running code up to the
\* enclosing catch of _invoke or _wrap.
FireOk_callback_exception_escapes(i, s, vals) ==
  LET t == NextOk([s EXCEPT !.ops = @ + 1], vals)
  IN IF CallbackThrew(t) THEN Propagate(t, CbErr) ELSE t
FireOk(i, s, vals) ==
  LET t == NextOk([s EXCEPT !.ops = @ + 1], vals)
  IN IF CallbackThrew(t) THEN Unwind(i, t, CbErr) ELSE t

FireErr(i, s, e) ==
  LET t == NextErr(i, [s EXCEPT !.ops = @ + 1], e)
  IN IF CallbackThrew(t) THEN Unwind(i, t, CbErr) ELSE t

(***************************************************************************)
(* _wrap(next) (src/index.js 189-198): next.wrap(fn) returns a new         *)
(* decorated function and touches nothing else.                            *)
(***************************************************************************)
Wrap(s) == [s EXCEPT !.decorated = @ + 1]

\* The decorated function called with arguments a and receiver r:
\* try { fn.apply(this, arguments); }
Decorated_without_arguments(s, a, r) ==
  [s EXCEPT !.ctx = "wrap",
            !.wrLog = Append(@, [args |-> a, self |-> r,
                                 fn |-> <<[args |-> <<>>, self |-> r]>>])]
Decorated(s, a, r) ==
  [s EXCEPT !.ctx = "wrap",
            !.wrLog = Append(@, [args |-> a, self |-> r,
                                 fn |-> <<[args |-> a, self |-> r]>>])]

\* The function decorated by next.wrap in release 0.3.0 and later: a truthy
\* first argument is an error, reported to next.err without calling fn.
DecoratedNode_calls_through(i, s, a, r) == Decorated(s, a, r)
DecoratedNode(i, s, a, r) ==
  IF Truthy(First(a))
  THEN WrapCatch(i, [s EXCEPT !.ctx = "wrap",
                              !.wrLog = Append(@, [args |-> a, self |-> r, fn |-> <<>>])],
                 First(a))
  ELSE Decorated(s, a, r)

DecoratedCall(i, s, a, r) ==
  IF revision = "N" THEN DecoratedNode(i, s, a, r) ELSE Decorated(s, a, r)

(***************************************************************************)
(* _next (src/index.js 211-221): the handle called directly.               *)
(***************************************************************************)
Next__always_ok(i, s, arguments) == FireOk(i, s, arguments)
Next_(i, s, arguments) ==
  LET result == First(arguments)
  IN IF TypeofFunction(result) THEN Wrap([s EXCEPT !.ops = @ + 1])
     ELSE IF InstanceofError(result) THEN FireErr(i, s, result)
     ELSE FireOk(i, s, arguments)

\* _next of revision A (82-86): next.ok.apply(this, arguments), whatever the
\* doc comment above it says.
NextA(i, s, arguments) == FireOk(i, s, arguments)

\* The handle of revision C called by the body (298-305, 319-324).
NextCByBody(i, s, arguments) ==
  IF InstanceofError(First(arguments)) THEN FireErr(i, s, First(arguments))
  ELSE FireOk(i, s, arguments)

\* The handle of release 0.3.1, called as the callback it stands for:
\* next(err) signals an error, next(null, data...) a success; a function is
\* decorated as by next.wrap.
NextN(i, s, arguments) ==
  LET err == First(arguments)
  IN IF TypeofFunction(err) THEN Wrap([s EXCEPT !.ops = @ + 1])
     ELSE IF Truthy(err) THEN FireErr(i, s, err)
     ELSE FireOk(i, s, IF arguments = <<>> THEN <<>> ELSE Tail(arguments))

NextCall(i, s, arguments) ==
  CASE revision = "B" -> Next_(i, s, arguments)
    [] revision = "A" -> NextA(i, s, arguments)
    [] revision = "C" -> NextCByBody(i, s, arguments)
    [] revision = "N" -> NextN(i, s, arguments)

(***************************************************************************)
(* _invoke (src/index.js 233-244), first half: fn.apply(self,              *)
(* args.concat([next])).  The body then runs step by step.                 *)
(***************************************************************************)
InvokeStart(i, s, where) ==
  [s EXCEPT !.ctx = where,
            !.seen = Append(@, s.handle),
            !.fnLog = Append(@, [args |-> Args(s.arguments) \o <<NextHandle(i)>>,
                                 self |-> s.self, ctx |-> where])]

(***************************************************************************)
(* The function returned by defer(fn) (src/index.js 147-181).              *)
(***************************************************************************)
ConfigError(i) == ErrorObj(FreshId(i, 0), "No promises support (defer.promise not defined)")

IsCallbackCall_any_function(arguments) ==
  \E k \in 1..Len(arguments) : TypeofFunction(arguments[k])
IsCallbackCall(arguments) == TypeofFunction(Last(arguments))

CallbackBranch_deferred(i, s) ==
  [s EXCEPT !.mode = "callback", !.sched = @ + 1,
            !.ret = [st |-> "returned", val |-> Undefined]]
CallbackBranch_invokes_first(i, s) ==
  [InvokeStart(i, [s EXCEPT !.mode = "callback", !.ret.st = "active"], "sync")
     EXCEPT !.handle = Wired("callback")]
CallbackBranch(i, s) ==
  InvokeStart(i, [s EXCEPT !.mode = "callback", !.ret.st = "active",
                           !.handle = Wired("callback")], "sync")

PromiseBranch_unchecked(i, s, prov) ==
  [s EXCEPT !.mode = "promise", !.prov = prov,
            !.promise = NewPromise(prov),
            !.made = @ + 1,
            !.sched = @ + 1,
            !.ret = [st |-> "returned", val |-> PromiseObj(i, prov)]]
PromiseBranch_synchronous(i, s, prov) ==
  IF prov = "none"
  THEN [s EXCEPT !.mode = "promise", !.prov = prov,
                 !.ret = [st |-> "threw", val |-> ConfigError(i)]]
  ELSE InvokeStart(i, [s EXCEPT !.mode = "promise", !.prov = prov,
                                !.promise = NewPromise(prov),
                                !.made = @ + 1,
                                !.ret.st = "active"], "sync")
PromiseBranch_returns_nothing(i, s, prov) ==
  IF prov = "none"
  THEN [s EXCEPT !.mode = "promise", !.prov = prov,
                 !.ret = [st |-> "threw", val |-> ConfigError(i)]]
  ELSE [s EXCEPT !.mode = "promise", !.prov = prov,
                 !.promise = NewPromise(prov),
                 !.made = @ + 1,
                 !.sched = @ + 1,
                 !.ret = [st |-> "returned", val |-> Undefined]]
PromiseBranch_unscheduled(i, s, prov) ==
  IF prov = "none"
  THEN [s EXCEPT !.mode = "promise", !.prov = prov,
                 !.ret = [st |-> "threw", val |-> ConfigError(i)]]
  ELSE [s EXCEPT !.mode = "promise", !.prov = prov,
                 !.promise = NewPromise(prov),
                 !.made = @ + 1,
                 !.ret = [st |-> "returned", val |-> PromiseObj(i, prov)]]
\* Revision C calls defer.promise unchecked (313): a cleared slot makes that
\* call throw a TypeError.
PromiseBranch(i, s, prov) ==
  IF prov = "none"
  THEN [s EXCEPT !.mode = "promise", !.prov = prov,
                 !.ret = [st |-> "threw",
                          val |-> IF revision = "C" THEN TypeErr ELSE ConfigError(i)]]
  ELSE [s EXCEPT !.mode = "promise", !.prov = prov,
                 !.promise = NewPromise(prov),
                 !.handle = Wired("promise"),
                 !.made = @ + 1,
                 !.sched = @ + 1,
                 !.ret = [st |-> "returned", val |-> PromiseObj(i, prov)]]

Adapted_requires_provider(i, arguments, self, prov) ==
  LET s == [NotCalled EXCEPT !.arguments = arguments, !.self = self]
  IN IF IsCallbackCall(arguments)
     THEN IF prov = "none"
          THEN [s EXCEPT !.mode = "callback", !.prov = prov,
                         !.ret = [st |-> "threw", val |-> ConfigError(i)]]
          ELSE CallbackBranch(i, [s EXCEPT !.prov = prov])
     ELSE PromiseBranch(i, s, prov)
Adapted(i, arguments, self, prov) ==
  LET s == [NotCalled EXCEPT !.arguments = arguments, !.self = self]
  IN IF IsCallbackCall(arguments) THEN CallbackBranch(i, s)
     ELSE PromiseBranch(i, s, prov)

(***************************************************************************)
(* Actions.                                                                *)
(***************************************************************************)
Idle == \A i \in Calls : inv[i].ctx = "none"
Running(i) == inv[i].ctx # "none"
\* The handle operations (ok, err, next, wrap) made so far by the invocations
\* 1..n.  A run makes at most MaxOps of them, one fewer for every further
\* invocation it follows.
RECURSIVE OpsUpTo(_)
OpsUpTo(n) == IF n = 0 THEN 0 ELSE inv[n].ops + OpsUpTo(n - 1)
CanAct(i) == Running(i) /\ OpsUpTo(MaxCalls) + (quota - 1) < MaxOps

\* `quota` is the number of invocations the embedding application makes in a
\* run.  Spec follows one invocation through its whole life.
CallInputs ==
  IF revision # "B" THEN RevisionCalls
  ELSE IF quota = 1
  THEN {[arguments |-> a, self |-> r] : a \in ArgLists, r \in Receivers}
  ELSE PairCalls

Init ==
  /\ quota = 1
  /\ revision = "B"
  /\ provider = "none"
  /\ inv = [i \in Calls |-> NotCalled]
  /\ immediateQ = <<>>

\* The embedding application sets or clears defer.promise; in the runs of the
\* other revisions it does so before it calls the adapted function.
SetProvider(p) ==
  /\ Idle
  /\ revision = "B" \/ inv[1].mode = "none"
  /\ p # provider
  /\ provider' = p
  /\ UNCHANGED <<inv, immediateQ, quota, revision>>

\* InitPair starts a run with two invocations of the same adapted function,
\* which interleave at every task boundary.
InitPair ==
  /\ quota = 2
  /\ revision = "B"
  /\ provider = "none"
  /\ inv = [i \in Calls |-> NotCalled]
  /\ immediateQ = <<>>

\* A caller invokes the adapted function.  The closure variables of an
\* invocation (self, args, next, callback, promise: 148-175) are locals of the
\* returned function.
Call_shared_closure(i, arguments, self) ==
  /\ Idle
  /\ i <= quota
  /\ inv[i].mode = "none"
  /\ \A j \in Calls : j < i => inv[j].mode # "none"
  /\ inv' = [j \in Calls |->
              IF j = i THEN Adapted(i, arguments, self, provider)
              ELSE IF inv[j].mode # "none"
                   THEN [inv[j] EXCEPT !.arguments = arguments, !.self = self]
                   ELSE inv[j]]
  /\ immediateQ' = IF inv'[i].sched > inv[i].sched THEN Append(immediateQ, i)
                   ELSE immediateQ
  /\ UNCHANGED <<provider, quota, revision>>
\* defer.promise is read inside the returned function (173-175).
Call_cached_provider(i, arguments, self) ==
  /\ Idle
  /\ i <= quota
  /\ inv[i].mode = "none"
  /\ \A j \in Calls : j < i => inv[j].mode # "none"
  /\ LET p == IF i > 1 /\ inv[1].prov # "unread" THEN inv[1].prov ELSE provider
     IN inv' = [inv EXCEPT ![i] = Adapted(i, arguments, self, p)]
  /\ immediateQ' = IF inv'[i].sched > inv[i].sched THEN Append(immediateQ, i)
                   ELSE immediateQ
  /\ UNCHANGED <<provider, quota, revision>>
Call(i, arguments, self) ==
  /\ Idle
  /\ i <= quota
  /\ inv[i].mode = "none"
  /\ \A j \in Calls : j < i => inv[j].mode # "none"
  /\ inv' = [inv EXCEPT ![i] = Adapted(i, arguments, self, provider)]
  /\ immediateQ' = IF inv'[i].sched > inv[i].sched THEN Append(immediateQ, i)
                   ELSE immediateQ
  /\ UNCHANGED <<provider, quota, revision>>

\* setImmediate runs the invoke() it was given.
RunImmediate ==
  /\ Idle
  /\ immediateQ # <<>>
  /\ LET i == Head(immediateQ)
     IN inv' = [inv EXCEPT ![i] = InvokeStart(i, inv[i], "deferred")]
  /\ immediateQ' = Tail(immediateQ)
  /\ UNCHANGED <<provider, quota, revision>>

\* The running code calls next.ok(vals).  A body that uses a member the
\* handle of its revision does not have throws a TypeError: a BodyThrow.
BodyOk(i, vals) ==
  /\ CanAct(i)
  /\ HandleHas("ok")
  /\ inv' = [inv EXCEPT ![i] = FireOk(i, inv[i], vals)]
  /\ UNCHANGED <<provider, immediateQ, quota, revision>>

\* The running code calls next.err(e).
BodyErr(i, e) ==
  /\ CanAct(i)
  /\ HandleHas("err")
  /\ inv' = [inv EXCEPT ![i] = FireErr(i, inv[i], e)]
  /\ UNCHANGED <<provider, immediateQ, quota, revision>>

\* The running code calls next(v).
BodyNext(i, v) ==
  /\ CanAct(i)
  /\ inv' = [inv EXCEPT ![i] = NextCall(i, inv[i], <<v>>)]
  /\ UNCHANGED <<provider, immediateQ, quota, revision>>

\* The running code hands next.wrap(f) to a timer: setTimeout(next.wrap(f), t).
BodySchedule(i) ==
  /\ CanAct(i)
  /\ HandleHas("wrap")
  /\ inv' = [inv EXCEPT ![i] = Wrap([@ EXCEPT !.ops = @ + 1, !.wraps = @ + 1])]
  /\ UNCHANGED <<provider, immediateQ, quota, revision>>

\* Second half of _invoke (237-239): the original function returns r.
\* A function decorated by wrap returns into the timer; its value is dropped.
InvokeReturn_completes(s, r) ==
  IF s.ctx = "wrap" THEN Finish(s, Undefined)
  ELSE IF IsThenable(r) THEN Finish([s EXCEPT !.inner = "pending"], r)
  ELSE Finish(NextOk(s, <<r>>), r)
InvokeReturn(s, r) ==
  IF s.ctx = "wrap" THEN Finish(s, Undefined)
  ELSE Finish([s EXCEPT !.inner = IF IsThenable(r) THEN "pending" ELSE @], r)

BodyReturn(i, r) ==
  /\ Running(i)
  /\ inv' = [inv EXCEPT ![i] = InvokeReturn(inv[i], r)]
  /\ UNCHANGED <<provider, immediateQ, quota, revision>>

\* The running code throws x: the exception reaches the catch of _invoke or
\* of _wrap, whose next.err call will be number `at` among the fires.
Throw(s, x) ==
  [s EXCEPT !.thrown = Append(@, [val |-> x, ctx |-> s.ctx, at |-> Len(s.fires) + 1])]

BodyThrow(i, x) ==
  /\ Running(i)
  /\ inv' = [inv EXCEPT ![i] = Unwind(i, Throw(inv[i], x), x)]
  /\ UNCHANGED <<provider, immediateQ, quota, revision>>

\* A timer or an I/O completion calls the function decorated by next.wrap
\* (src/index.js 190-197) with arguments a and receiver r.
RunWrapped(i, a, r) ==
  /\ Idle
  /\ inv[i].wraps > 0
  /\ inv' = [inv EXCEPT ![i] =
               DecoratedCall(i, [@ EXCEPT !.wraps = @ - 1, !.wkind = "wrap"], a, r)]
  /\ UNCHANGED <<provider, immediateQ, quota, revision>>

\* The running code hands next.cwrap(f) to a timer or an event emitter.
BodyScheduleCwrap(i) ==
  /\ CanAct(i)
  /\ HandleHas("cwrap")
  /\ inv' = [inv EXCEPT ![i] = Wrap([@ EXCEPT !.ops = @ + 1, !.cwraps = @ + 1])]
  /\ UNCHANGED <<provider, immediateQ, quota, revision>>

\* The timer or the emitter calls the function decorated by next.cwrap.
RunCwrapped_checks_argument(i, a, r) ==
  /\ Idle
  /\ inv[i].cwraps > 0
  /\ inv' = [inv EXCEPT ![i] =
               DecoratedNode(i, [@ EXCEPT !.cwraps = @ - 1, !.wkind = "cwrap"], a, r)]
  /\ UNCHANGED <<provider, immediateQ, quota, revision>>
RunCwrapped(i, a, r) ==
  /\ Idle
  /\ inv[i].cwraps > 0
  /\ inv' = [inv EXCEPT ![i] =
               Decorated([@ EXCEPT !.cwraps = @ - 1, !.wkind = "cwrap"], a, r)]
  /\ UNCHANGED <<provider, immediateQ, quota, revision>>

\* The running code calls next(null, data...), the handle as a Node callback.
BodyNextNode(i, arguments) ==
  /\ CanAct(i)
  /\ inv' = [inv EXCEPT ![i] = NextCall(i, inv[i], arguments)]
  /\ UNCHANGED <<provider, immediateQ, quota, revision>>

\* The running code calls next.progress(vals).
BodyProgress(i, vals) ==
  /\ CanAct(i)
  /\ HandleHas("progress")
  /\ inv' = [inv EXCEPT ![i] = NextProgress([@ EXCEPT !.ops = @ + 1], vals)]
  /\ UNCHANGED <<provider, immediateQ, quota, revision>>

\* The thenable the original function returned settles and runs the handlers
\* _invoke attached: next.ok, or function(err) { return next.err.call(this, err) }.
\* An exception thrown inside a handler belongs to the thenable.
ThenHandler_fulfilment_only(i, s, fulfilled, v) ==
  LET t == IF fulfilled THEN NextOk([s EXCEPT !.ctx = "then"], <<v>>)
           ELSE [s EXCEPT !.ctx = "then"]
      u == [t EXCEPT !.inner = "settled", !.ctx = "none"]
  IN IF CallbackThrew(u) /\ fulfilled
     THEN [u EXCEPT !.escaped = @ \cup {[site |-> "then", val |-> CbErr]}]
     ELSE u
\* Revision C attaches next and function(err) { next(errify(err)); } (287).
ThenHandler(i, s, fulfilled, v) ==
  LET c == [s EXCEPT !.ctx = "then"]
      e == errify(v, FreshId(i, s.allocs + 1))
      t == IF revision = "C"
           THEN IF fulfilled THEN NextC(i, c, <<v>>)
                ELSE NextC(i, [c EXCEPT !.allocs = IF e = v THEN @ ELSE @ + 1], <<e>>)
           ELSE IF fulfilled THEN NextOk(c, <<v>>) ELSE NextErr(i, c, v)
      u == [t EXCEPT !.inner = "settled", !.ctx = "none"]
  IN IF CallbackThrew(u)
     THEN [u EXCEPT !.escaped = @ \cup {[site |-> "then", val |-> CbErr]}]
     ELSE u

Settle(s, fulfilled, v) ==
  [s EXCEPT !.settle = [how |-> IF fulfilled THEN "fulfilled" ELSE "rejected", val |-> v]]

InnerSettle(i, fulfilled, v) ==
  /\ Idle
  /\ inv[i].inner = "pending"
  /\ inv' = [inv EXCEPT ![i] = ThenHandler(i, Settle(inv[i], fulfilled, v), fulfilled, v)]
  /\ UNCHANGED <<provider, immediateQ, quota, revision>>

\* The thenable the original function returned notifies progress: revision A
\* attached next.progress as the third handler (104-107).
InnerProgress(i, v) ==
  /\ Idle
  /\ inv[i].inner = "pending"
  /\ revision \in {"A", "N"}
  /\ Len(inv[i].notes) < MaxOps
  /\ inv' = [inv EXCEPT ![i] = NextProgress(inv[i], <<v>>)]
  /\ UNCHANGED <<provider, immediateQ, quota, revision>>

Next ==
  \/ \E p \in Providers \cup {"none"} : SetProvider(p)
  \/ \E i \in Calls, c \in CallInputs : Call(i, c.arguments, c.self)
  \/ RunImmediate
  \/ \E i \in Calls, vals \in OkLists : BodyOk(i, vals)
  \/ \E i \in Calls, e \in FailVals : BodyErr(i, e)
  \/ \E i \in Calls, v \in NextVals : BodyNext(i, v)
  \/ \E i \in Calls : BodySchedule(i)
  \/ \E i \in Calls, r \in ReturnVals : BodyReturn(i, r)
  \/ \E i \in Calls, x \in FailVals : BodyThrow(i, x)
  \/ \E i \in Calls, a \in TimerArgs, r \in TimerReceivers : RunWrapped(i, a, r)
  \/ \E i \in Calls, v \in FailVals : InnerSettle(i, TRUE, v)
  \/ \E i \in Calls, v \in FailVals : InnerSettle(i, FALSE, v)

Spec == Init /\ [][Next]_vars

SpecPair == InitPair /\ [][Next]_vars

\* The event loop runs every task it was given (setImmediate, 264-268), and
\* the code on the stack runs to its end: a task that never returns would
\* keep every later task from running.
Returns == \E i \in Calls, r \in ReturnVals : BodyReturn(i, r)
SpecPairFair == SpecPair /\ WF_vars(RunImmediate) /\ WF_vars(Returns)

\* The runs of the other revisions of the module that src/index.js holds (A
\* and C) and of release 0.3.1 (N): one invocation each.  Revision C sets the
\* provider slot to Q's when it is loaded (330).
InitRevisions ==
  /\ quota = 1
  /\ revision \in {"A", "C", "N"}
  /\ provider = IF revision = "C" THEN "Q" ELSE "none"
  /\ inv = [i \in Calls |-> NotCalled]
  /\ immediateQ = <<>>

NextRevisions ==
  \/ Next
  \/ \E i \in Calls, a \in NodeCalls : BodyNextNode(i, a)
  \/ \E i \in Calls, vals \in ProgressLists : BodyProgress(i, vals)
  \/ \E i \in Calls : BodyScheduleCwrap(i)
  \/ \E i \in Calls, a \in NodeTimerArgs, r \in TimerReceivers : RunWrapped(i, a, r)
  \/ \E i \in Calls, a \in TimerArgs, r \in TimerReceivers : RunCwrapped(i, a, r)
  \/ \E i \in Calls, v \in ProgressVals : InnerProgress(i, v)

SpecRevisions == InitRevisions /\ [][NextRevisions]_vars

TypeOK ==
  /\ provider \in Providers \cup {"none"}
  /\ revision \in {"A", "B", "C", "N"}
  /\ \A i \in Calls : inv[i].mode \in {"none", "callback", "promise"}
  /\ Cardinality({i \in Calls : Running(i)}) <= 1


(***************************************************************************)
(* Properties.                                                             *)
(***************************************************************************)
Called(i) == inv[i].mode # "none"
UserObjectIds == {UserErr.id, CbErr.id, TypeErr.id}

\* n is what normalisation must deliver for the raw failure value x: x itself
\* when x is an Error, else an Error object that did not exist before and
\* whose message is x.
Normalized(n, x) ==
  /\ n.kind = "error"
  /\ x.kind = "error" => n = x
  /\ x.kind # "error" => n.msg = x.msg /\ n.id \notin UserObjectIds

\* C1: an exception x thrown by the body of the original function (inside the
\* adapted call in callback mode, inside the deferred task in promise mode)
\* reaches the caller as a failure: the callback is called with the normalised
\* error alone, or the promise, if still pending, is rejected with it; an Error
\* keeps its identity; and x never leaves the adapted call as an exception (the
\* call throws only what the caller's own callback threw, the deferred task
\* throws nothing).
C1_ThrowBecomesFailure ==
  \A i \in Calls : \A k \in DOMAIN inv[i].thrown :
    LET s == inv[i]
        t == s.thrown[k]
    IN t.ctx \in {"sync", "deferred"} =>
         /\ s.ret.st = "threw" => (CallbackThrows(s) /\ s.ret.val = CbErr)
         /\ \A e \in s.escaped : e.site # "deferred"
         /\ s.mode = "callback" =>
              /\ Len(s.cbLog) >= t.at
              /\ Len(s.cbLog[t.at].args) = 1
              /\ Normalized(s.cbLog[t.at].args[1], t.val)
         /\ (s.mode = "promise" /\ t.at = 1) =>
              /\ s.promise.state = "rejected"
              /\ Normalized(s.promise.value, t.val)

C1_Witness ==
  \E i \in Calls :
    /\ inv[i].mode = "promise"
    /\ inv[i].thrown = <<[val |-> A, ctx |-> "deferred", at |-> 1]>>
    /\ inv[i].promise.state = "rejected"
    /\ inv[i].promise.value.msg = "a"

\* C2: the branch an invocation takes is the callback branch exactly when the
\* last argument of the call is a function, whatever the other arguments are;
\* the callback branch makes no promise and defers nothing, the promise branch
\* never calls a callback; a call without arguments takes the promise branch.
C2_ModeByLastArgument ==
  \A i \in Calls :
    LET s == inv[i]
        n == Len(s.arguments)
        lastIsFunction == n > 0 /\ s.arguments[n].kind = "function"
    IN Called(i) =>
         /\ s.mode = (IF lastIsFunction THEN "callback" ELSE "promise")
         /\ n = 0 => s.mode = "promise"
         /\ s.mode = "callback" => (s.made = 0 /\ s.sched = 0 /\ s.promise = NoPromise)
         /\ s.mode = "promise" => s.cbLog = <<>>

C2_Witness ==
  \E i \in Calls :
    /\ inv[i].arguments = <<CbQuiet, A>>
    /\ inv[i].mode = "promise"
    /\ inv[i].fnLog # <<>>

\* C3: when the body of the original function calls next.ok(v1..vn), the
\* callback-mode caller's callback is called with (undefined, v1..vn) and the
\* promise of a promise-mode call, when this is the first outcome, is fulfilled
\* with v1 (undefined when n = 0).
C3_OkDelivers ==
  \A i \in Calls : \A k \in DOMAIN inv[i].fires :
    LET s == inv[i]
        f == s.fires[k]
    IN (f.op = "ok" /\ f.ctx \in {"sync", "deferred"}) =>
         /\ s.mode = "callback" =>
              /\ Len(s.cbLog) >= k
              /\ s.cbLog[k].args = <<Undefined>> \o f.args
         /\ (s.mode = "promise" /\ k = 1) =>
              /\ s.promise.state = "fulfilled"
              /\ s.promise.value = (IF f.args = <<>> THEN Undefined ELSE f.args[1])

C3_Witness ==
  \E i \in Calls :
    /\ inv[i].mode = "callback"
    /\ inv[i].fires = <<[op |-> "ok", args |-> <<A, B>>, ctx |-> "sync"]>>
    /\ inv[i].cbLog = <<[args |-> <<Undefined, A, B>>, self |-> inv[i].self]>>

\* C4: in promise mode the original function is never called inside the
\* adapted call: whenever it has been called, or any outcome exists, the call
\* has already returned the promise, and the body ran in a deferred task.
C4_PromiseModeDefers ==
  \A i \in Calls :
    LET s == inv[i]
    IN s.mode = "promise" =>
         /\ s.ctx # "sync"
         /\ \A k \in DOMAIN s.fnLog : s.fnLog[k].ctx = "deferred"
         /\ (s.fnLog # <<>> \/ s.fires # <<>> \/ s.promise.state \in {"fulfilled", "rejected"})
              => (s.ret.st = "returned" /\ s.ret.val.kind = "promise")

C4_Witness ==
  \E i \in Calls :
    /\ inv[i].mode = "promise"
    /\ inv[i].ret.st = "returned"
    /\ inv[i].ctx = "deferred"
    /\ inv[i].fires # <<>>

\* C5: a promise-mode call that finds no Promise Provider throws the
\* configuration error to its caller: the original function is never called,
\* nothing is scheduled, no promise exists and neither ok nor err fires.
C5_NoProviderThrows ==
  \A i \in Calls :
    LET s == inv[i]
    IN (s.mode = "promise" /\ s.prov = "none") =>
         /\ s.ret.st = "threw"
         /\ s.ret.val.kind = "error"
         /\ s.ret.val.msg = "No promises support (defer.promise not defined)"
         /\ s.fnLog = <<>>
         /\ s.sched = 0
         /\ \A q \in DOMAIN immediateQ : immediateQ[q] # i
         /\ s.made = 0
         /\ s.promise = NoPromise
         /\ s.fires = <<>>
         /\ s.cbLog = <<>>
         /\ s.ctx = "none"

C5_Witness ==
  \E i \in Calls :
    /\ inv[i].mode = "promise"
    /\ inv[i].prov = "none"
    /\ inv[i].ret.st = "threw"
    /\ provider # "none"

\* C6: every next.err(e) propagates an Error: e itself when e is an Error, else
\* a new Error whose message is e; the callback is called with that error as
\* its only argument, the promise (when this is its first outcome) is rejected
\* with it.
C6_ErrNormalizes ==
  \A i \in Calls : \A k \in DOMAIN inv[i].fires :
    LET s == inv[i]
        f == s.fires[k]
    IN f.op = "err" =>
         /\ s.mode = "callback" =>
              /\ Len(s.cbLog) >= k
              /\ Len(s.cbLog[k].args) = 1
              /\ Normalized(s.cbLog[k].args[1], f.args[1])
         /\ (s.mode = "promise" /\ k = 1) =>
              /\ s.promise.state = "rejected"
              /\ Normalized(s.promise.value, f.args[1])

C6_Witness ==
  \E i \in Calls :
    /\ inv[i].mode = "callback"
    /\ inv[i].thrown = <<>>
    /\ Len(inv[i].fires) = 1
    /\ inv[i].fires[1].op = "err"
    /\ inv[i].fires[1].args = <<A>>
    /\ Len(inv[i].cbLog) = 1
    /\ inv[i].cbLog[1].args[1].kind = "error"
    /\ inv[i].cbLog[1].args[1].msg = "a"

\* C7 (as claimed): the caller's callback is called at most once per
\* callback-mode invocation, however often the completion handle fires (here
\* for callbacks that return normally).
C7_CallbackAtMostOnce ==
  \A i \in Calls :
    (inv[i].mode = "callback" /\ ~CallbackThrows(inv[i])) => Len(inv[i].cbLog) <= 1

\* C8: once the promise of an invocation is settled, no later step changes its
\* state or value, however often ok and err fire afterwards.
C8_PromiseSettlesOnce ==
  [][\A i \in Calls :
       inv[i].promise.state \in {"fulfilled", "rejected"}
         => inv'[i].promise = inv[i].promise]_vars

C8_Witness ==
  \E i \in Calls :
    /\ inv[i].mode = "promise"
    /\ Len(inv[i].fires) >= 2
    /\ inv[i].fires[1].op = "ok"
    /\ inv[i].fires[2].op = "err"
    /\ inv[i].promise.state = "fulfilled"

\* C9: a callback-mode call adaptedFn(a1..aN, cb) calls the original function
\* exactly once, with (a1..aN, next) in that order and not cb, and with the
\* receiver of the adapted call.
C9_CallbackModeForwards ==
  \A i \in Calls :
    LET s == inv[i]
        n == Len(s.arguments)
    IN s.mode = "callback" =>
         /\ Len(s.fnLog) = 1
         /\ Len(s.fnLog[1].args) = n
         /\ \A k \in 1..(n - 1) : s.fnLog[1].args[k] = s.arguments[k]
         /\ s.fnLog[1].args[n] = NextHandle(i)
         /\ s.fnLog[1].self = s.self
         /\ s.self \in Receivers

C9_Witness ==
  \E i \in Calls :
    /\ inv[i].mode = "callback"
    /\ inv[i].arguments = <<A, CbQuiet>>
    /\ inv[i].fnLog = <<[args |-> <<A, NextHandle(i)>>, self |-> "objA", ctx |-> "sync"]>>
    /\ inv[i].ret.st = "returned"

\* C10 (as claimed): in promise mode the original function receives every
\* argument of the call, followed by the completion handle.
C10_PromiseModeForwardsAll ==
  \A i \in Calls :
    (inv[i].mode = "promise" /\ inv[i].fnLog # <<>>)
      => inv[i].fnLog[1].args = inv[i].arguments \o <<NextHandle(i)>>


\* C11: in callback mode the body of the original function runs inside the
\* adapted call: it is entered in the step of the call, nothing is handed to
\* setImmediate, the call has an outcome exactly when the body has finished
\* (returned or thrown), and every ok/err fired while the body runs inside the
\* call has its callback invocation in the same step, before the call returns.
C11_CallbackModeSynchronous ==
  \A i \in Calls :
    LET s == inv[i]
    IN s.mode = "callback" =>
         /\ Len(s.fnLog) = 1
         /\ s.fnLog[1].ctx = "sync"
         /\ s.sched = 0
         /\ \A q \in DOMAIN immediateQ : immediateQ[q] # i
         /\ (s.ctx = "sync") <=> (s.ret.st = "active")
         /\ \A k \in DOMAIN s.fires :
              s.fires[k].ctx = "sync" => Len(s.cbLog) >= k

C11_Witness ==
  \E i \in Calls :
    /\ inv[i].mode = "callback"
    /\ inv[i].ret = [st |-> "returned", val |-> Str("42")]
    /\ inv[i].fires = <<[op |-> "ok", args |-> <<A>>, ctx |-> "sync"]>>
    /\ inv[i].cbLog = <<[args |-> <<Undefined, A>>, self |-> "objA"]>>

\* C12: next(v) dispatches in strict priority.  A function: the call returns a
\* new decorated function and fires neither ok nor err (no callback call, no
\* change of the promise).  Otherwise an Error: err is fired with v itself and
\* ok is not fired.  Otherwise: ok is fired with v, and err is not fired by
\* the dispatch (a later err can only carry what the caller's own callback
\* threw while it received the result).
C12_NextDispatch ==
  [][\A i \in Calls, v \in NextVals :
       BodyNext(i, v) =>
         LET s == inv[i]
             t == inv'[i]
             n == Len(s.fires)
         IN /\ TypeofFunction(v) =>
                 /\ t.decorated = s.decorated + 1
                 /\ t.fires = s.fires
                 /\ t.cbLog = s.cbLog
                 /\ t.promise = s.promise
            /\ (~TypeofFunction(v) /\ InstanceofError(v)) =>
                 /\ Len(t.fires) > n
                 /\ t.fires[n + 1].op = "err"
                 /\ t.fires[n + 1].args = <<v>>
                 /\ t.decorated = s.decorated
                 /\ \A k \in (n + 1)..Len(t.fires) : t.fires[k].op = "err"
            /\ (~TypeofFunction(v) /\ ~InstanceofError(v)) =>
                 /\ Len(t.fires) > n
                 /\ t.fires[n + 1].op = "ok"
                 /\ t.fires[n + 1].args = <<v>>
                 /\ t.decorated = s.decorated
                 /\ \A k \in (n + 2)..Len(t.fires) :
                      /\ CallbackThrows(s)
                      /\ t.fires[k] = [op |-> "err", args |-> <<CbErr>>, ctx |-> s.ctx]
    ]_vars

\* next(f) was called with a function and nothing else happened.
C12_Witness ==
  \E i \in Calls :
    /\ inv[i].ops = 1
    /\ inv[i].decorated = 1
    /\ inv[i].wraps = 0
    /\ inv[i].wrLog = <<>>
    /\ inv[i].fires = <<>>
    /\ inv[i].cbLog = <<>>

\* C13: when the function given to next.wrap throws x, the call of the
\* decorated function produces exactly one err call, carrying x, and no ok
\* call: the sink receives normalize(x) (the callback one more call with that
\* error alone, the promise a rejection with it if it was pending), and x does
\* not propagate out of the decorated function (only what the caller's own
\* callback threw while it received the error can reach the timer).
C13_WrapRoundTrip ==
  [][\A i \in Calls, x \in FailVals :
       (inv[i].ctx = "wrap" /\ BodyThrow(i, x)) =>
         LET s == inv[i]
             t == inv'[i]
             n == Len(s.fires)
             c == Len(s.cbLog)
         IN /\ Len(t.fires) = n + 1
            /\ t.fires[n + 1] = [op |-> "err", args |-> <<x>>, ctx |-> "wrap"]
            /\ t.ctx = "none"
            /\ t.ret = s.ret
            /\ s.mode = "callback" =>
                 /\ Len(t.cbLog) = c + 1
                 /\ Len(t.cbLog[c + 1].args) = 1
                 /\ Normalized(t.cbLog[c + 1].args[1], x)
            /\ (s.mode = "promise" /\ s.promise.state = "pending") =>
                 /\ t.promise.state = "rejected"
                 /\ Normalized(t.promise.value, x)
            /\ (s.mode = "promise" /\ s.promise.state # "pending") =>
                 t.promise = s.promise
            /\ \A e \in t.escaped \ s.escaped :
                 /\ CallbackThrows(s)
                 /\ e = [site |-> "wrap", val |-> CbErr]
    ]_vars

\* A decorated function was called by a timer, threw the string "a", and the
\* callback received a new Error with that message.
C13_Witness ==
  \E i \in Calls :
    /\ inv[i].mode = "callback"
    /\ Len(inv[i].wrLog) = 1
    /\ inv[i].thrown = <<[val |-> A, ctx |-> "wrap", at |-> 1]>>
    /\ inv[i].fires = <<[op |-> "err", args |-> <<A>>, ctx |-> "wrap"]>>
    /\ Len(inv[i].cbLog) = 1
    /\ inv[i].cbLog[1].args[1].kind = "error"
    /\ inv[i].cbLog[1].args[1].msg = "a"
    /\ inv[i].escaped = {}
    /\ inv[i].ctx = "none"

\* C14: a call g(a...) of g = wrap(fn) with receiver r invokes fn exactly once,
\* with receiver r and arguments a; the call itself fires neither ok nor err
\* when it starts, and when fn completes without throwing it ends without
\* having fired either (no callback call, no change of the promise).
C14_WrapCallsThrough ==
  [][/\ \A i \in Calls : \A k \in DOMAIN inv'[i].wrLog :
          LET g == inv'[i].wrLog[k]
          IN g.fn = <<[args |-> g.args, self |-> g.self]>>
     /\ \A i \in Calls, a \in TimerArgs, r \in TimerReceivers :
          RunWrapped(i, a, r) =>
            /\ inv'[i].wrLog = Append(inv[i].wrLog,
                                      [args |-> a, self |-> r,
                                       fn |-> <<[args |-> a, self |-> r]>>])
            /\ inv'[i].fires = inv[i].fires
            /\ inv'[i].cbLog = inv[i].cbLog
            /\ inv'[i].promise = inv[i].promise
     /\ \A i \in Calls, v \in ReturnVals :
          (inv[i].ctx = "wrap" /\ BodyReturn(i, v)) =>
            /\ inv'[i].ctx = "none"
            /\ inv'[i].wrLog = inv[i].wrLog
            /\ inv'[i].fires = inv[i].fires
            /\ inv'[i].cbLog = inv[i].cbLog
            /\ inv'[i].promise = inv[i].promise
            /\ inv'[i].escaped = inv[i].escaped
    ]_vars

\* A decorated function was called with (Error, "a") by a timer, its function
\* returned, and nothing was fired.
C14_Witness ==
  \E i \in Calls :
    /\ inv[i].wrLog = <<[args |-> <<UserErr, A>>, self |-> "timer",
                         fn |-> <<[args |-> <<UserErr, A>>, self |-> "timer"]>>]>>
    /\ inv[i].ctx = "none"
    /\ inv[i].wraps = 0
    /\ inv[i].thrown = <<>>
    /\ inv[i].fires = <<>>
    /\ inv[i].cbLog = <<>>

\* C15: an exception x thrown inside a decorated callback that a timer runs
\* after the adapted function has returned still reaches the sink: the
\* callback is called with the normalised error alone, or the promise, if that
\* failure is the first outcome, is rejected with it; and x never escapes to
\* the scheduler (only what the caller's own callback threw can).
C15_LateThrowDelivered ==
  \A i \in Calls : \A k \in DOMAIN inv[i].thrown :
    LET s == inv[i]
        t == s.thrown[k]
    IN t.ctx = "wrap" =>
         /\ s.ret.st \in {"returned", "threw"}
         /\ s.wrLog # <<>>
         /\ s.mode = "callback" =>
              /\ Len(s.cbLog) >= t.at
              /\ Len(s.cbLog[t.at].args) = 1
              /\ Normalized(s.cbLog[t.at].args[1], t.val)
              /\ s.cbLog[t.at].self = s.self
         /\ (s.mode = "promise" /\ t.at = 1) =>
              /\ s.promise.state = "rejected"
              /\ Normalized(s.promise.value, t.val)
         /\ \A e \in s.escaped :
              e.site = "wrap" => (CallbackThrows(s) /\ e.val = CbErr)

\* Promise mode: the adapted call returned its promise, the deferred body
\* handed a decorated callback to a timer, and the Error that callback threw
\* later rejected the promise.
C15_Witness ==
  \E i \in Calls :
    /\ inv[i].mode = "promise"
    /\ inv[i].ret.st = "returned"
    /\ inv[i].thrown = <<[val |-> UserErr, ctx |-> "wrap", at |-> 1]>>
    /\ inv[i].promise.state = "rejected"
    /\ inv[i].promise.value = UserErr
    /\ inv[i].escaped = {}

\* C16: when the original function returns a promise-like and never touches
\* the handle (no ok, err, next or wrap, no throw), then in both modes its
\* fulfilment with v is the one ok(v) of the invocation (the callback gets
\* (undefined, v), the promise is fulfilled with v) and its rejection with r
\* is the one err(r) (the callback gets the normalised Error alone, the
\* promise is rejected with it).
C16_ReturnedThenableBridged ==
  \A i \in Calls :
    LET s == inv[i]
        v == s.settle.val
    IN (s.settle.how # "none" /\ s.ops = 0 /\ s.thrown = <<>>) =>
         /\ s.inner = "settled"
         /\ s.settle.how = "fulfilled" =>
              /\ s.fires = <<[op |-> "ok", args |-> <<v>>, ctx |-> "then"]>>
              /\ s.mode = "callback" =>
                   s.cbLog = <<[args |-> <<Undefined, v>>, self |-> s.self]>>
              /\ s.mode = "promise" =>
                   (s.promise.state = "fulfilled" /\ s.promise.value = v)
         /\ s.settle.how = "rejected" =>
              /\ s.fires = <<[op |-> "err", args |-> <<v>>, ctx |-> "then"]>>
              /\ s.mode = "callback" =>
                   /\ Len(s.cbLog) = 1
                   /\ Len(s.cbLog[1].args) = 1
                   /\ Normalized(s.cbLog[1].args[1], v)
              /\ s.mode = "promise" =>
                   (s.promise.state = "rejected" /\ Normalized(s.promise.value, v))

\* Promise mode: the returned thenable rejected with the string "a" and the
\* adapter's promise is rejected with a new Error whose message is "a".
C16_Witness ==
  \E i \in Calls :
    /\ inv[i].mode = "promise"
    /\ inv[i].ops = 0
    /\ inv[i].settle = [how |-> "rejected", val |-> A]
    /\ inv[i].promise.state = "rejected"
    /\ inv[i].promise.value.kind = "error"
    /\ inv[i].promise.value.msg = "a"

\* C17: in callback mode, when the original function returns r inside the
\* adapted call, the adapted call returns exactly r (42, undefined, a
\* thenable), whether or not the handle was fired before.
C17_CallbackModeReturnsResult ==
  [][\A i \in Calls, r \in ReturnVals :
       (inv[i].mode = "callback" /\ inv[i].ctx = "sync" /\ BodyReturn(i, r)) =>
         /\ inv'[i].ret = [st |-> "returned", val |-> r]
         /\ inv'[i].ctx = "none"
         /\ inv'[i].fires = inv[i].fires
         /\ inv'[i].cbLog = inv[i].cbLog
    ]_vars

\* The body returned 42 without touching the handle and the adapted call
\* returned 42.
C17_Witness ==
  \E i \in Calls :
    /\ inv[i].mode = "callback"
    /\ inv[i].ret = [st |-> "returned", val |-> Str("42")]
    /\ inv[i].ops = 0
    /\ inv[i].fires = <<>>
    /\ inv[i].thrown = <<>>
    /\ Len(inv[i].fnLog) = 1

\* C18: an invocation in promise mode (with a provider configured) constructs
\* exactly one promise, through the provider that was configured at the call;
\* the promise exists before the original function is invoked (the function
\* runs only in the deferred task); the adapted call returns that promise and
\* never a value the original function returns.
C18_PromiseModeReturnsItsPromise ==
  \A i \in Calls :
    LET s == inv[i]
    IN (s.mode = "promise" /\ s.prov # "none") =>
         /\ s.made = 1
         /\ s.promise.state # "none"
         /\ s.promise.provider = s.prov
         /\ s.ret = [st |-> "returned", val |-> PromiseObj(i, s.prov)]
         /\ s.ret.val \notin ReturnVals
         /\ Len(s.fnLog) <= 1
         /\ \A k \in DOMAIN s.fnLog : s.fnLog[k].ctx = "deferred"

\* The deferred body ran to its end after the call had returned the promise
\* made by Q, and fulfilled it.
C18_Witness ==
  \E i \in Calls :
    /\ inv[i].mode = "promise"
    /\ inv[i].made = 1
    /\ inv[i].ret = [st |-> "returned", val |-> PromiseObj(i, "Q")]
    /\ Len(inv[i].fnLog) = 1
    /\ inv[i].ctx = "none"
    /\ inv[i].promise = [state |-> "fulfilled", value |-> A, provider |-> "Q"]

NoOkFired(s) == \A k \in DOMAIN s.fires : s.fires[k].op # "ok"

\* C19 (as stated): in an invocation in which ok is never fired, every failure
\* passed to err is delivered to the sink: the callback is called with its
\* normalised Error, or the promise is rejected with its normalised Error.
C19_EveryFailureDelivered ==
  \A i \in Calls :
    LET s == inv[i]
    IN NoOkFired(s) =>
         \A k \in DOMAIN s.fires :
           /\ s.mode = "callback" =>
                /\ Len(s.cbLog) >= k
                /\ Normalized(s.cbLog[k].args[1], s.fires[k].args[1])
           /\ s.mode = "promise" =>
                /\ s.promise.state = "rejected"
                /\ Normalized(s.promise.value, s.fires[k].args[1])

\* C19 (amended): in an invocation in which ok is never fired, every exception
\* thrown by the body or by a decorated callback and every rejection of the
\* returned promise-like is passed to err; in callback mode every err call is
\* exactly one callback call with the normalised Error alone; in promise mode
\* the first err call rejects the promise with the normalised Error and later
\* ones change nothing; nothing is thrown to the caller of the adapted
\* function or to the scheduler except what the caller's own callback threw
\* (and the configuration error of a call that never invoked the function).
C19_FailuresFunnelled ==
  \A i \in Calls :
    LET s == inv[i]
    IN (Called(i) /\ NoOkFired(s)) =>
         /\ \A k \in DOMAIN s.thrown :
              /\ Len(s.fires) >= s.thrown[k].at
              /\ s.fires[s.thrown[k].at].op = "err"
              /\ s.fires[s.thrown[k].at].args = <<s.thrown[k].val>>
         /\ s.settle.how = "rejected" =>
              \E k \in DOMAIN s.fires :
                s.fires[k] = [op |-> "err", args |-> <<s.settle.val>>, ctx |-> "then"]
         /\ s.mode = "callback" =>
              /\ Len(s.cbLog) = Len(s.fires)
              /\ \A k \in DOMAIN s.fires :
                   /\ Len(s.cbLog[k].args) = 1
                   /\ Normalized(s.cbLog[k].args[1], s.fires[k].args[1])
         /\ (s.mode = "promise" /\ s.fires # <<>>) =>
              /\ s.promise.state = "rejected"
              /\ Normalized(s.promise.value, s.fires[1].args[1])
         /\ s.ret.st = "threw" =>
              \/ CallbackThrows(s) /\ s.ret.val = CbErr
              \/ s.mode = "promise" /\ s.prov = "none" /\ s.fnLog = <<>>
         /\ \A e \in s.escaped : CallbackThrows(s) /\ e.val = CbErr

\* Promise mode: the deferred body called next.err("a") and then threw an
\* Error; the promise is rejected with the Error made for "a".
C19_Witness ==
  \E i \in Calls :
    /\ inv[i].mode = "promise"
    /\ inv[i].fires = <<[op |-> "err", args |-> <<A>>, ctx |-> "deferred"],
                        [op |-> "err", args |-> <<UserErr>>, ctx |-> "deferred"]>>
    /\ inv[i].thrown = <<[val |-> UserErr, ctx |-> "deferred", at |-> 2]>>
    /\ inv[i].promise.state = "rejected"
    /\ inv[i].promise.value.msg = "a"
    /\ inv[i].escaped = {}

\* What invocation i has observed and delivered is a function of its own
\* call alone: its body got its own leading arguments, its own handle and its
\* own receiver; its callback ran once per firing of its own handle, with its
\* own receiver and that firing's values; its promise is the one its own call
\* returned and carries its own first outcome.
OwnOutcomes(i, s) ==
  /\ \A k \in DOMAIN s.fnLog :
       /\ s.fnLog[k].args = Args(s.arguments) \o <<NextHandle(i)>>
       /\ s.fnLog[k].self = s.self
  /\ s.mode = "callback" =>
       /\ Len(s.cbLog) = Len(s.fires)
       /\ \A k \in DOMAIN s.fires :
            /\ s.cbLog[k].self = s.self
            /\ s.fires[k].op = "ok" =>
                 s.cbLog[k].args = <<Undefined>> \o s.fires[k].args
            /\ s.fires[k].op = "err" =>
                 /\ Len(s.cbLog[k].args) = 1
                 /\ Normalized(s.cbLog[k].args[1], s.fires[k].args[1])
  /\ (s.mode = "promise" /\ s.prov # "none") =>
       /\ s.ret.val = PromiseObj(i, s.prov)
       /\ s.fires = <<>> => s.promise.state = "pending"
       /\ (s.fires # <<>> /\ s.fires[1].op = "ok") =>
            /\ s.promise.state = "fulfilled"
            /\ s.promise.value = IF s.fires[1].args = <<>> THEN Undefined
                                 ELSE s.fires[1].args[1]
       /\ (s.fires # <<>> /\ s.fires[1].op = "err") =>
            /\ s.promise.state = "rejected"
            /\ Normalized(s.promise.value, s.fires[1].args[1])

\* C20: two invocations of the same adapted function, in either mode and
\* interleaved at every task boundary, share no state: a step that changes
\* one invocation (its call, its body, its timers, its thenable) leaves the
\* other's closure, logs, callback calls and promise as they were, and in
\* every state each invocation's outcomes and the arguments and receiver its
\* body saw are those of its own call.
C20_InvocationsIndependent ==
  /\ [](\A i \in Calls : OwnOutcomes(i, inv[i]))
  /\ [][\A i \in Calls, j \in Calls :
          (i # j /\ inv'[i] # inv[i]) => inv'[j] = inv[j]]_vars

\* The first invocation (promise mode) has returned its promise and its body
\* is still waiting in the setImmediate queue, while the second one (callback
\* mode, other receiver, other argument) has run and delivered.
C20_Witness ==
  /\ quota = 2
  /\ immediateQ = <<1>>
  /\ inv[1].mode = "promise"
  /\ inv[1].arguments = <<A, A>>
  /\ inv[1].ret = [st |-> "returned", val |-> PromiseObj(1, "Q")]
  /\ inv[1].promise.state = "pending"
  /\ inv[1].fnLog = <<>>
  /\ inv[2].mode = "callback"
  /\ inv[2].fnLog = <<[args |-> <<B, NextHandle(2)>>, self |-> "objB", ctx |-> "sync"]>>
  /\ inv[2].cbLog = <<[args |-> <<Undefined, A, B>>, self |-> "objB"]>>
  /\ inv[2].ret.st = "returned"

\* C21: defer.promise is read at each promise-mode call: the call uses the
\* provider configured at that moment (it throws when none is), whatever was
\* configured when earlier calls were made; and setting or clearing
\* defer.promise afterwards changes no invocation: a promise already returned
\* keeps its provider and stays the value its call returned.
C21_ProviderReadAtEachCall ==
  [][/\ \A i \in Calls, c \in CallInputs :
          (Call(i, c.arguments, c.self) /\ ~IsCallbackCall(c.arguments)) =>
            /\ inv'[i].prov = provider
            /\ provider # "none" =>
                 /\ inv'[i].promise = NewPromise(provider)
                 /\ inv'[i].ret = [st |-> "returned", val |-> PromiseObj(i, provider)]
            /\ provider = "none" =>
                 /\ inv'[i].ret.st = "threw"
                 /\ inv'[i].promise = NoPromise
     /\ \A p \in Providers \cup {"none"} : SetProvider(p) => inv' = inv
     /\ \A i \in Calls :
          inv[i].promise.provider # "none" =>
            /\ inv'[i].promise.provider = inv[i].promise.provider
            /\ inv'[i].ret = inv[i].ret
            /\ inv'[i].prov = inv[i].prov
    ]_vars

\* The first call was made under Q and its promise has been fulfilled; the
\* second call was made after the provider had been changed to when; the
\* provider has been cleared since.
C21_Witness ==
  /\ quota = 2
  /\ provider = "none"
  /\ inv[1].ret = [st |-> "returned", val |-> PromiseObj(1, "Q")]
  /\ inv[1].promise.provider = "Q"
  /\ inv[1].promise.state = "fulfilled"
  /\ inv[2].ret = [st |-> "returned", val |-> PromiseObj(2, "when")]
  /\ inv[2].promise.provider = "when"

C25_ProgressForwarded ==
  [][\A i \in Calls :
       LET s == inv[i]
           t == inv'[i]
       IN /\ \A vals \in ProgressLists :
               (revision = "A" /\ BodyProgress(i, vals)) =>
                 /\ t.fires = s.fires
                 /\ t.cbLog = s.cbLog
                 /\ t.promise = s.promise
                 /\ t.notes = IF s.mode = "promise" THEN Append(s.notes, vals) ELSE <<>>
          /\ \A v \in ProgressVals :
               (revision = "A" /\ InnerProgress(i, v)) =>
                 /\ t.fires = s.fires
                 /\ t.cbLog = s.cbLog
                 /\ t.promise = s.promise
                 /\ t.notes = IF s.mode = "promise" THEN Append(s.notes, <<v>>) ELSE <<>>
    ]_vars

\* The body called next.progress("a", "b") and returned a thenable, which
\* then notified "b": the notifier of the pending promise was called twice.
C25_Witness ==
  \E i \in Calls :
    /\ revision = "A"
    /\ inv[i].mode = "promise"
    /\ inv[i].promise.state = "pending"
    /\ inv[i].inner = "pending"
    /\ inv[i].notes = <<<<A, B>>, <<B>>>>

\* C26: in revision A a failure value reaches the caller as it is: after
\* next.err(x), and after the thenable the original function returned was
\* rejected with x, the callback has received x itself as its only argument,
\* and a promise that was pending is rejected with x itself; no Error object
\* is made for a value that is not one.
C26_FailureNotCoerced ==
  [][\A i \in Calls, x \in FailVals :
       (revision = "A" /\ (BodyErr(i, x) \/ InnerSettle(i, FALSE, x))) =>
         LET s == inv[i]
             t == inv'[i]
         IN /\ t.allocs = s.allocs
            /\ s.mode = "callback" =>
                 t.cbLog = Append(s.cbLog, [args |-> <<x>>, self |-> s.self])
            /\ (s.mode = "promise" /\ s.promise.state = "pending") =>
                 /\ t.promise.state = "rejected"
                 /\ t.promise.value = x
    ]_vars

\* The returned thenable was rejected with the string "a" and the promise
\* of the invocation is rejected with that string.
C26_Witness ==
  \E i \in Calls :
    /\ revision = "A"
    /\ inv[i].mode = "promise"
    /\ inv[i].settle = [how |-> "rejected", val |-> A]
    /\ inv[i].fires = <<[op |-> "err", args |-> <<A>>, ctx |-> "then"]>>
    /\ inv[i].promise.state = "rejected"
    /\ inv[i].promise.value = A

\* C27: in revision C, whatever value x the original function throws inside a
\* callback-mode call, Error or not, the caller's callback is called with x as
\* the error, its first and only argument, never as a result.
C27_ThrownValueIsError ==
  [][\A i \in Calls, x \in FailVals :
       (revision = "C" /\ inv[i].mode = "callback" /\ inv[i].ctx = "sync" /\ BodyThrow(i, x)) =>
         inv'[i].cbLog = Append(inv[i].cbLog, [args |-> <<x>>, self |-> inv[i].self])
    ]_vars

\* C28: in revision A, next(v) dispatches as the comment of _next states: an
\* Error fires err with v, a function is decorated as by next.wrap and fires
\* nothing, any other value fires ok with v.
C28_NextDispatchAsDocumented ==
  [][\A i \in Calls, v \in NextVals :
       (revision = "A" /\ BodyNext(i, v)) =>
         LET s == inv[i]
             t == inv'[i]
         IN /\ InstanceofError(v) =>
                 t.fires = Append(s.fires, [op |-> "err", args |-> <<v>>, ctx |-> s.ctx])
            /\ TypeofFunction(v) =>
                 /\ t.decorated = s.decorated + 1
                 /\ t.fires = s.fires
            /\ (~InstanceofError(v) /\ ~TypeofFunction(v)) =>
                 t.fires = Append(s.fires, [op |-> "ok", args |-> <<v>>, ctx |-> s.ctx])
    ]_vars

\* C29 as stated: in callback mode, when the caller's callback throws while
\* the body calls next.ok (or next) inside the adapted call, the callback is
\* called a second time with the exception as its only argument and the
\* adapted call does not throw.
C29_CallbackExceptionContained ==
  [][\A i \in Calls, vals \in OkLists :
       LET s == inv[i]
           t == inv'[i]
       IN (/\ s.mode = "callback"
           /\ s.ctx = "sync"
           /\ CallbackThrows(s)
           /\ BodyOk(i, vals) \/ (vals = <<A>> /\ BodyNext(i, A))) =>
            /\ t.cbLog = s.cbLog \o <<[args |-> <<Undefined>> \o vals, self |-> s.self],
                                      [args |-> <<CbErr>>, self |-> s.self]>>
            /\ t.ret.st # "threw"
    ]_vars

\* C29: in callback mode, when the caller's callback throws while the body
\* calls next.ok (or next) inside the adapted call, the catch of the Invoker
\* fires err with the exception: the callback is called a second time with the
\* exception as its only argument.  The adapted call then returns undefined,
\* unless the callback throws again during that second call: then, and only
\* then, the exception reaches the caller of the adapted function.
C29_CallbackExceptionRouted ==
  [][\A i \in Calls, vals \in OkLists :
       LET s == inv[i]
           t == inv'[i]
           n == Len(s.fires)
       IN (/\ s.mode = "callback"
           /\ s.ctx = "sync"
           /\ CallbackThrows(s)
           /\ BodyOk(i, vals) \/ (vals = <<A>> /\ BodyNext(i, A))) =>
            /\ t.cbLog = s.cbLog \o <<[args |-> <<Undefined>> \o vals, self |-> s.self],
                                      [args |-> <<CbErr>>, self |-> s.self]>>
            /\ t.fires = s.fires \o <<[op |-> "ok", args |-> vals, ctx |-> "sync"],
                                      [op |-> "err", args |-> <<CbErr>>, ctx |-> "sync"]>>
            /\ t.ctx = "none"
            /\ t.ret = IF Last(s.arguments) = CbThrows
                       THEN [st |-> "threw", val |-> CbErr]
                       ELSE [st |-> "returned", val |-> Undefined]
    ]_vars

\* The callback threw on the result and took the exception on its second
\* call: the adapted call returned.
C29_Witness ==
  \E i \in Calls :
    /\ revision = "B"
    /\ inv[i].arguments = <<CbThrowsOnResult>>
    /\ inv[i].cbLog = <<[args |-> <<Undefined, A>>, self |-> inv[i].self],
                        [args |-> <<CbErr>>, self |-> inv[i].self]>>
    /\ inv[i].ret = [st |-> "returned", val |-> Undefined]

\* C30: completion is never implicit.  As long as the original function has
\* not returned a thenable, nothing was thrown, and the running code (the body
\* or a decorated callback run later) has made no call of ok, err or next
\* other than decorating functions, neither ok nor err has fired: the caller's
\* callback has not been called and the promise of a promise-mode call is
\* still pending, whatever the function returned and however long ago.
C30_NoImplicitCompletion ==
  \A i \in Calls :
    LET s == inv[i]
    IN (/\ s.fnLog # <<>>
        /\ s.inner = "none"
        /\ s.thrown = <<>>
        /\ s.ops = s.decorated) =>
         /\ s.fires = <<>>
         /\ s.cbLog = <<>>
         /\ s.mode = "promise" => s.promise.state = "pending"

\* The deferred body decorated a callback and returned; the timer ran the
\* callback, which returned too: the promise is still pending.
C30_Witness ==
  \E i \in Calls :
    /\ inv[i].mode = "promise"
    /\ inv[i].ctx = "none"
    /\ Len(inv[i].fnLog) = 1
    /\ inv[i].inner = "none"
    /\ inv[i].thrown = <<>>
    /\ inv[i].ops = 1
    /\ inv[i].decorated = 1
    /\ inv[i].wraps = 0
    /\ Len(inv[i].wrLog) = 1
    /\ inv[i].promise.state = "pending"

\* C31: every promise-mode invocation that found a provider hands invoke to
\* setImmediate exactly once: it is either in the queue, once, or has run; no
\* two entries of the queue belong to the same invocation, a task that runs
\* starts the original function of one invocation only, and the original
\* function is never started twice.  When the event loop runs every task it
\* was given, the original function of every such invocation is eventually
\* started.
C31_ScheduledOnceAndRun ==
  /\ [](\A i \in Calls :
          LET s == inv[i]
              queued == {q \in DOMAIN immediateQ : immediateQ[q] = i}
          IN /\ (s.mode = "promise" /\ s.prov # "none") =>
                  /\ s.sched = 1
                  /\ Cardinality(queued) + Len(s.fnLog) = 1
             /\ ~(s.mode = "promise" /\ s.prov # "none") => queued = {})
  /\ [][RunImmediate =>
          \E i \in Calls :
            /\ Len(inv'[i].fnLog) = Len(inv[i].fnLog) + 1
            /\ \A j \in Calls \ {i} : inv'[j] = inv[j]]_vars
  /\ \A i \in Calls :
       (inv[i].mode = "promise" /\ inv[i].prov # "none") ~> (Len(inv[i].fnLog) = 1)

\* Two promise-mode invocations were made before either task ran, and both
\* original functions have been started since, each once.
C31_Witness ==
  /\ quota = 2
  /\ immediateQ = <<>>
  /\ \A i \in 1..2 :
       /\ inv[i].mode = "promise"
       /\ inv[i].sched = 1
       /\ Len(inv[i].fnLog) = 1
  /\ inv[2].fnLog[1].ctx = "deferred"
  /\ inv[1].ctx = "none"
  /\ inv[2].ctx # "none"

\* C32: a callback-mode invocation never reads the provider slot, whatever
\* the slot holds: the body was run inside the call, no promise was made, the
\* call threw no configuration error (it throws only what the caller's own
\* callback threw), and every firing of ok or err called the callback: ok with
\* (undefined, values...), err with the normalised error alone.
C32_CallbackModeIgnoresProvider ==
  \A i \in Calls :
    LET s == inv[i]
    IN s.mode = "callback" =>
         /\ s.prov = "unread"
         /\ s.made = 0
         /\ s.promise = NoPromise
         /\ Len(s.fnLog) = 1
         /\ s.ret.st = "threw" => s.ret.val = CbErr
         /\ Len(s.cbLog) = Len(s.fires)
         /\ \A k \in DOMAIN s.fires :
              IF s.fires[k].op = "ok"
              THEN s.cbLog[k].args = <<Undefined>> \o s.fires[k].args
              ELSE /\ Len(s.cbLog[k].args) = 1
                   /\ Normalized(s.cbLog[k].args[1], s.fires[k].args[1])

\* With the slot unset, a callback-mode call fired ok and then err, and the
\* callback was called for both.
C32_Witness ==
  \E i \in Calls :
    /\ provider = "none"
    /\ inv[i].mode = "callback"
    /\ inv[i].prov = "unread"
    /\ inv[i].ret.st # "threw"
    /\ Len(inv[i].fires) = 2
    /\ inv[i].fires[1].op = "ok"
    /\ inv[i].fires[2].op = "err"
    /\ Len(inv[i].cbLog) = 2

\* C33: whenever the original function is started, the handle it receives
\* has ok and err bound to the sink of the invocation's mode and has wrap:
\* a callback-mode call wires them before it calls invoke(), a promise-mode
\* call before its task is in the queue.
C33_HandleWiredBeforeBody ==
  /\ \A i \in Calls :
       LET s == inv[i]
       IN /\ Len(s.seen) = Len(s.fnLog)
          /\ \A k \in DOMAIN s.seen :
               s.seen[k] = [ok |-> s.mode, err |-> s.mode, wrap |-> "set"]
  /\ \A q \in DOMAIN immediateQ :
       inv[immediateQ[q]].handle = [ok |-> "promise", err |-> "promise", wrap |-> "set"]

\* A callback-mode body has just been started inside the call and received
\* a handle wired to the callback.
C33_Witness ==
  \E i \in Calls :
    /\ inv[i].mode = "callback"
    /\ inv[i].ctx = "sync"
    /\ inv[i].fires = <<>>
    /\ inv[i].seen = <<[ok |-> "callback", err |-> "callback", wrap |-> "set"]>>

\* C34 as stated: in callback mode, when the original function throws x
\* inside the adapted call, the callback is called with the normalised error
\* before the call ends, and the call returns undefined.
C34_SyncThrowReturnsUndefined ==
  [][\A i \in Calls, x \in FailVals :
       LET s == inv[i]
           t == inv'[i]
       IN (s.mode = "callback" /\ s.ctx = "sync" /\ BodyThrow(i, x)) =>
            /\ Len(t.cbLog) = Len(s.cbLog) + 1
            /\ Len(Last(t.cbLog).args) = 1
            /\ Normalized(Last(t.cbLog).args[1], x)
            /\ t.ret = [st |-> "returned", val |-> Undefined]
    ]_vars

\* C34: in callback mode, when the original function throws x inside the
\* adapted call, the callback is called with the normalised error before the
\* call ends; the call then returns undefined, unless the callback itself
\* throws while it receives the error: then the call throws what the callback
\* threw.
C34_SyncThrowDelivered ==
  [][\A i \in Calls, x \in FailVals :
       LET s == inv[i]
           t == inv'[i]
       IN (s.mode = "callback" /\ s.ctx = "sync" /\ BodyThrow(i, x)) =>
            /\ Len(t.cbLog) = Len(s.cbLog) + 1
            /\ Len(Last(t.cbLog).args) = 1
            /\ Normalized(Last(t.cbLog).args[1], x)
            /\ t.ctx = "none"
            /\ t.ret = IF Last(s.arguments) = CbThrows
                       THEN [st |-> "threw", val |-> CbErr]
                       ELSE [st |-> "returned", val |-> Undefined]
    ]_vars

\* The body threw the string "a" at once; the callback received a new Error
\* with that message and the call returned undefined.
C34_Witness ==
  \E i \in Calls :
    /\ inv[i].mode = "callback"
    /\ inv[i].thrown = <<[val |-> A, ctx |-> "sync", at |-> 1]>>
    /\ Len(inv[i].cbLog) = 1
    /\ inv[i].cbLog[1].args[1].kind = "error"
    /\ inv[i].cbLog[1].args[1].msg = "a"
    /\ inv[i].ret = [st |-> "returned", val |-> Undefined]

\* C35: errify returns its argument itself when that is an Error and else a
\* new Error made from it, so errify(errify(x)) is the object errify(x).  For
\* every failure value x passed to err in a run (by the body, by a catch, by
\* the rejection handler of a returned thenable): what the callback received
\* for it is x itself or the one new Error made from x, a further errify would
\* return that same object, and the invocation has made exactly one new Error
\* per failure value that was not an Error.
C35_ErrifyIdempotent ==
  \A i \in Calls :
    LET s == inv[i]
        errs == {k \in DOMAIN s.fires : s.fires[k].op = "err"}
    IN /\ \A k \in errs :
            LET x == s.fires[k].args[1]
                once == errify(x, FreshId(i, 1))
                twice == errify(once, FreshId(i, 2))
            IN /\ InstanceofError(x) => once = x
               /\ ~InstanceofError(x) =>
                    /\ once = ErrorObj(FreshId(i, 1), JsString(x))
                    /\ once.id \notin UserObjectIds
               /\ twice = once
               /\ s.mode = "callback" =>
                    LET d == s.cbLog[k].args[1]
                    IN /\ errify(d, FreshId(i, s.allocs + 1)) = d
                       /\ InstanceofError(x) => d = x
                       /\ ~InstanceofError(x) => (d.kind = "error" /\ d.msg = JsString(x))
       /\ s.allocs = Cardinality({k \in errs : ~InstanceofError(s.fires[k].args[1])})

\* The thenable the body returned was rejected with the string "a": the
\* callback received the one new Error made from it.
C35_Witness ==
  \E i \in Calls :
    /\ inv[i].mode = "callback"
    /\ inv[i].settle = [how |-> "rejected", val |-> A]
    /\ inv[i].fires = <<[op |-> "err", args |-> <<A>>, ctx |-> "then"]>>
    /\ inv[i].cbLog = <<[args |-> <<ErrorObj(FreshId(i, 1), "a")>>, self |-> inv[i].self]>>
    /\ inv[i].allocs = 1

=============================================================================
